---- MODULE Spec2Model ----
(***************************************************************************)
(* Multi-round CSV analysis workflow of backend/app: the LangGraph state   *)
(* graph of create_analysis_graph, its nodes (code_analysis_nodes.py),     *)
(* the checkpoint functions save_state / load_state and resume_analysis.   *)
(*                                                                         *)
(* The AnalysisState dictionary is the record `state`; `pc` is the node    *)
(* the graph runs next.  External capabilities (CSV reader, LLM planner,   *)
(* generator, repairer, oracle, sandbox outcome, report sink) are inputs   *)
(* chosen nondeterministically by the actions.                             *)
(***************************************************************************)
EXTENDS Integers, Sequences, FiniteSets, TLC

\* ---------------------------------------------------------------- constants
MAX_RETRY == 3
MAX_ROUNDS == 5

\* ------------------------------------------------------------------- bounds
\* longest task list the planner LLM returns in the model
MaxPlanLen == 6
\* how many times per invocation a step other than the sandboxed source
\* raises unexpectedly: a report-sink call, or execute_code_node's own try block
MaxFaults == 1
\* the same limit for the runs whose termination is checked under fairness
FairFaults == 0
\* how many sandbox executions per invocation end with the source raising
MaxExecFailures == 4
\* how many times per invocation the oracle's availability changes from one
\* consultation to the next (0: reachable at every call, or at none)
MaxOracleFlips == 0
\* how many times resume_analysis is called
MaxResumes == 1
\* how many times a manual fix is requested
MaxPauses == 1
\* the same three limits for invocations that can be paused and resumed
ResumePlanLen == 2
ResumeFaults == 0
ResumeExecFailures == 2
\* the same limits for an invocation resumed from a file save_state did not write
LoadPlanLen == 1
LoadFaults == 0
LoadExecFailures == 1

\* --------------------------------------------------------- value encodings
\* Python None
None == "None"
\* Python {} (empty dict)
EmptyDict == [k \in {} |-> TRUE]
\* the task name used when the round is outside the plan ("未知任务")
UnknownTask == 0
\* datetime.now() is not observed by any decision of the workflow
Now == "now"

\* Python truthiness of state.get("error")
Truthy_never(e) == FALSE
Truthy(e) == e # None /\ e # ""

\* dict.get(key, default)
Get(d, k, default) == IF k \in DOMAIN d THEN d[k] ELSE default

\* {**d, k1: v1, ...}: the dict d with the keys of upd replaced or added
Merge(d, upd) ==
  [k \in (DOMAIN d) \cup (DOMAIN upd) |-> IF k \in DOMAIN upd THEN upd[k] ELSE d[k]]

\* one entry of the progress log: what happened, and in which round
Msg(tag, n) == <<tag, n>>

VARIABLES
  state,       \* the AnalysisState dict threaded through the graph
  pc,          \* the node the graph runs next; "END" when invoke returned
  checkpoint,  \* the document save_state wrote, or NoFile
  hist         \* observation counters of the current invocation (not program state)

vars == <<state, pc, checkpoint, hist>>

NoFile == [exists |-> FALSE]

\* ------------------------------------------------------------ initial state
\* run_analysis: initial_state
InitialState ==
  [ csv_path |-> "data.csv",
    csv_info |-> "{}",
    prompt |-> "",
    generated_code |-> "",
    execution_result |-> EmptyDict,
    error |-> None,
    messages |-> <<>>,
    analysis_rounds |-> <<>>,
    current_round |-> 0,
    analysis_plan |-> <<>>,
    completed_analyses |-> <<>>,
    temp_report_path |-> "",
    should_continue |-> TRUE,
    has_execution_error |-> FALSE,
    error_retry_count |-> 0,
    user_intervention_mode |-> None,
    paused_for_fix |-> FALSE ]

\* ------------------------------------------------------------------- nodes
\* read_csv_info_node; ok = pd.read_csv succeeded
read_csv_info_node(s, ok) ==
  [ csv_path |-> s.csv_path,
    csv_info |-> IF ok THEN "info" ELSE "{}",
    prompt |-> "",
    generated_code |-> "",
    execution_result |-> EmptyDict,
    error |-> IF ok THEN None ELSE "read_failed",
    messages |-> IF ok THEN << Msg("read_ok", 0) >> ELSE << Msg("read_failed", 0) >>,
    analysis_rounds |-> <<>>,
    current_round |-> 0,
    analysis_plan |-> <<>>,
    completed_analyses |-> <<>>,
    temp_report_path |-> "",
    should_continue |-> ok,
    has_execution_error |-> FALSE,
    error_retry_count |-> 0,
    user_intervention_mode |-> None,
    paused_for_fix |-> FALSE ]

\* the task list parsed from the planner's JSON: n tasks, named 1..n
MakePlan(n) == [i \in 1..n |-> i]
\* the default plan used when the planner's reply is not JSON
DefaultPlan == MakePlan(4)

\* update_temp_markdown: the path it returns (the file content is the sink's)
update_temp_markdown(s) ==
  IF Get(s, "temp_report_path", "") = "" THEN "tmp.md" ELSE s.temp_report_path

\* _append_round_result: the entries it appends to the report file, which are
\* renderings of round_data = analysis_rounds[round_num - 1] (Python list
\* index from 0; here the ledger is indexed from 1)
append_round_result(s, round_num) ==
  LET analysis_rounds == Get(s, "analysis_rounds", <<>>)
  IN IF round_num > Len(analysis_rounds) THEN <<>>
     ELSE <<analysis_rounds[round_num]>>

\* update_temp_markdown, lines 35-38: the entries appended for the state
report_entries(s) ==
  LET current_round == Get(s, "current_round", 0)
  IN IF current_round > 0 THEN append_round_result(s, current_round) ELSE <<>>

\* plan_analysis_node; llm in {"tasks", "bad_json", "raise"}, n = number of
\* tasks in the reply, sink_ok = update_temp_markdown did not raise
plan_analysis_node(s, llm, n, sink_ok) ==
  IF Truthy(Get(s, "error", None)) THEN s
  ELSE IF llm = "raise" \/ ~sink_ok
    THEN Merge(s, [ error |-> "plan_failed",
                    should_continue |-> FALSE,
                    messages |-> Append(s.messages, Msg("plan_failed", 0)) ])
    ELSE LET analysis_plan == IF llm = "bad_json" THEN DefaultPlan ELSE MakePlan(n)
         IN Merge(s, [ analysis_plan |-> analysis_plan,
                       temp_report_path |-> update_temp_markdown(s),
                       messages |-> Append(s.messages, Msg("planned", Len(analysis_plan))) ])

\* generate_code_node; llm in {"code", "empty", "raise"}
generate_code_node(s, llm) ==
  LET current_round == Get(s, "current_round", 0) + 1
      analysis_plan == Get(s, "analysis_plan", <<>>)
  IN IF Truthy(Get(s, "error", None)) THEN s
     ELSE IF ~(current_round <= Len(analysis_plan))
       THEN Merge(s, [ should_continue |-> FALSE,
                       messages |-> Append(s.messages, Msg("plan_done", 0)) ])
     ELSE IF llm = "raise"
       THEN Merge(s, [ current_round |-> current_round,
                       prompt |-> "prompt",
                       generated_code |-> "",
                       error |-> "llm_failed",
                       should_continue |-> FALSE,
                       messages |-> Append(s.messages, Msg("llm_failed", current_round)) ])
       ELSE Merge(s, [ current_round |-> current_round,
                       prompt |-> "prompt",
                       generated_code |-> IF llm = "empty" THEN "" ELSE "gen",
                       messages |-> Append(s.messages, Msg("generated", current_round)) ])

\* execute_code_safely: the outcome dict; ok = the source ran without raising;
\* locals is the namespace the source left behind (lines 90-93), {} on failure
execute_code_safely(code, ok) ==
  IF ok THEN [ success |-> TRUE, output |-> "out", error |-> "",
               locals |-> [ names |-> "namespace" ] ]
        ELSE [ success |-> FALSE, output |-> "partial", error |-> "exec_error",
               locals |-> EmptyDict ]

\* execute_code_node, lines 420-422: the completed list after an attempt
completed_after_any_attempt(completed_analyses, result, current_task) ==
  Append(completed_analyses, current_task)
completed_after(completed_analyses, result, current_task) ==
  IF result.success THEN Append(completed_analyses, current_task)
  ELSE completed_analyses

\* execute_code_node; outcome in {"ok", "fail", "raise"}: the source ran, the
\* source raised inside the sandbox, the node's own try block raised
execute_code_node(s, outcome) ==
  LET current_round == Get(s, "current_round", 1)
      analysis_plan == Get(s, "analysis_plan", <<>>)
  IN IF Truthy(Get(s, "error", None)) THEN s
     ELSE IF s.generated_code = ""
       THEN Merge(s, [ error |-> "no_code",
                       should_continue |-> FALSE,
                       messages |-> Append(s.messages, Msg("no_code", current_round)) ])
     ELSE IF outcome = "raise"
       THEN Merge(s, [ execution_result |-> [ success |-> FALSE, error |-> "raised" ],
                       error |-> "exec_raised",
                       has_execution_error |-> TRUE,
                       should_continue |-> FALSE,
                       messages |-> Append(s.messages, Msg("exec_raised", current_round)) ])
       ELSE LET result == execute_code_safely(s.generated_code, outcome = "ok")
                current_task == IF current_round <= Len(analysis_plan)
                                  THEN analysis_plan[current_round]
                                  ELSE UnknownTask
                round_record == [ round |-> current_round,
                                  task |-> current_task,
                                  code |-> s.generated_code,
                                  execution_result |-> result,
                                  timestamp |-> Now ]
            IN Merge(s, [ execution_result |-> result,
                          analysis_rounds |->
                            Append(Get(s, "analysis_rounds", <<>>), round_record),
                          completed_analyses |->
                            completed_after(Get(s, "completed_analyses", <<>>),
                                            result, current_task),
                          error |-> IF result.success THEN None ELSE result.error,
                          has_execution_error |-> ~result.success,
                          messages |-> Append(s.messages,
                            IF result.success THEN Msg("exec_ok", current_round)
                                              ELSE Msg("exec_failed", current_round)) ])

\* handle_error_node, lines 478-484: the default strategy
user_choice_pauses_when_exhausted(error_retry_count) ==
  IF error_retry_count < MAX_RETRY THEN "auto_fix" ELSE "manual_fix"
user_choice_always_fix(error_retry_count) == "auto_fix"
user_choice_off_by_one(error_retry_count) ==
  IF error_retry_count <= MAX_RETRY THEN "auto_fix" ELSE "skip"
user_choice(error_retry_count) ==
  IF error_retry_count < MAX_RETRY THEN "auto_fix" ELSE "skip"

\* handle_error_node, lines 486-556: what each choice does; repair_ok = the
\* Repairer (analyze_and_fix_code) returned a non-empty fixed source
handle_error_choice(s, choice, repair_ok) ==
  LET current_round == Get(s, "current_round", 0)
      error_retry_count == Get(s, "error_retry_count", 0)
  IN CASE choice = "auto_fix" /\ repair_ok ->
            Merge(s, [ generated_code |-> "fixed",
                       error |-> None,
                       has_execution_error |-> FALSE,
                       error_retry_count |-> error_retry_count + 1,
                       user_intervention_mode |-> "auto_fix",
                       messages |-> Append(s.messages, Msg("auto_fixed", current_round)) ])
       [] choice = "auto_fix" /\ ~repair_ok ->
            Merge(s, [ has_execution_error |-> FALSE,
                       error_retry_count |-> 0,
                       user_intervention_mode |-> "skip",
                       messages |-> Append(s.messages, Msg("fix_failed_skip", current_round)) ])
       [] choice = "manual_fix" ->
            Merge(s, [ paused_for_fix |-> TRUE,
                       should_continue |-> FALSE,
                       user_intervention_mode |-> "manual_fix",
                       messages |-> Append(s.messages, Msg("paused", current_round)) ])
       [] OTHER ->
            Merge(s, [ has_execution_error |-> FALSE,
                       error |-> None,
                       error_retry_count |-> 0,
                       user_intervention_mode |-> "skip",
                       messages |-> Append(s.messages, Msg("skipped", current_round)) ])

\* handle_error_node as the graph runs it
handle_error_node_marks_done(s, repair_ok) ==
  LET t == handle_error_choice(s, user_choice(Get(s, "error_retry_count", 0)), repair_ok)
  IN IF t.user_intervention_mode = "skip"
       THEN Merge(t, [ completed_analyses |->
                         Append(t.completed_analyses, s.analysis_plan[s.current_round]) ])
       ELSE t
handle_error_node(s, repair_ok) ==
  handle_error_choice(s, user_choice(Get(s, "error_retry_count", 0)), repair_ok)

\* update_temp_report_node; sink_ok = update_temp_markdown did not raise
update_temp_report_node(s, sink_ok) ==
  LET current_round == Get(s, "current_round", 0)
  IN IF sink_ok
       THEN Merge(s, [ temp_report_path |-> update_temp_markdown(s),
                       messages |-> Append(s.messages, Msg("report_updated", current_round)) ])
       ELSE Merge(s, [ messages |-> Append(s.messages, Msg("report_failed", current_round)) ])

\* decide_continue_node, lines 625-627: the round cap test
round_cap_reached_off(current_round) == current_round > MAX_ROUNDS
round_cap_reached(current_round) == current_round >= MAX_ROUNDS

\* decide_continue_node, lines 671-734: should_continue once the oracle has
\* been asked; oracle in {"continue", "stop", "unparsable", "unavailable"}:
\* its parsed decision, a reply that is not JSON, a call that raised
oracle_should_continue_unparsable_stops(s, oracle) ==
  IF oracle = "unavailable"
    THEN Get(s, "current_round", 0) < Len(Get(s, "analysis_plan", <<>>))
    ELSE oracle = "continue"
oracle_should_continue_ignores_stop(s, oracle) == TRUE
oracle_should_continue_off(s, oracle) ==
  IF oracle = "unavailable" THEN FALSE
  ELSE (IF oracle = "unparsable" THEN "continue" ELSE oracle) = "continue"
oracle_should_continue(s, oracle) ==
  IF oracle = "unavailable"
    THEN Get(s, "current_round", 0) < Len(Get(s, "analysis_plan", <<>>))
    ELSE LET decision == IF oracle = "unparsable" THEN "continue" ELSE oracle
         IN decision = "continue"

\* decide_continue_node
decide_continue_node_no_plan_test(s, oracle) ==
  LET current_round == Get(s, "current_round", 0)
  IN IF Truthy(Get(s, "error", None))
       THEN Merge(s, [ should_continue |-> FALSE ])
     ELSE IF round_cap_reached(current_round)
       THEN Merge(s, [ should_continue |-> FALSE,
                       messages |-> Append(s.messages, Msg("round_cap", MAX_ROUNDS)) ])
     ELSE LET should_continue == oracle \in {"continue", "unparsable"}
          IN Merge(s, [ should_continue |-> should_continue,
                        messages |-> Append(s.messages,
                          Msg(IF should_continue THEN "llm_continue" ELSE "llm_stop",
                              current_round)) ])
decide_continue_node(s, oracle) ==
  LET current_round == Get(s, "current_round", 0)
      analysis_plan == Get(s, "analysis_plan", <<>>)
  IN IF Truthy(Get(s, "error", None))
       THEN Merge(s, [ should_continue |-> FALSE ])
     ELSE IF round_cap_reached(current_round)
       THEN Merge(s, [ should_continue |-> FALSE,
                       messages |-> Append(s.messages, Msg("round_cap", MAX_ROUNDS)) ])
     ELSE IF current_round >= Len(analysis_plan)
       THEN Merge(s, [ should_continue |-> FALSE,
                       messages |-> Append(s.messages, Msg("plan_done", 0)) ])
     ELSE LET should_continue == oracle_should_continue(s, oracle)
              tag == IF oracle = "unavailable"
                       THEN (IF should_continue THEN "fallback_continue" ELSE "fallback_stop")
                       ELSE (IF should_continue THEN "llm_continue" ELSE "llm_stop")
          IN Merge(s, [ should_continue |-> should_continue,
                        messages |-> Append(s.messages, Msg(tag, current_round)) ])

\* final_summary_node; sink_ok = generate_final_report did not raise
final_summary_node(s, sink_ok) ==
  IF sink_ok
    THEN Merge(s, [ messages |-> s.messages \o
                      << Msg("summary", Get(s, "current_round", 0)), Msg("final_report", 0) >> ])
    ELSE Merge(s, [ error |-> "final_report_failed",
                    messages |-> Append(s.messages, Msg("final_report_failed", 0)) ])

\* ------------------------------------------------ external capability calls
\* whether a node, given s, gets as far as its external call: the Planner
\* (lines 145-147, 176), the Generator (261-263, 269-279, 310), the sandbox
\* (370-373, 379-387, 394)
planner_called(s) == ~Truthy(Get(s, "error", None))
generator_called(s) ==
  /\ ~Truthy(Get(s, "error", None))
  /\ Get(s, "current_round", 0) + 1 <= Len(Get(s, "analysis_plan", <<>>))
sandbox_called_despite_error(s) == s.generated_code # ""
sandbox_called_without_source(s) == ~Truthy(Get(s, "error", None))
sandbox_called(s) ==
  /\ ~Truthy(Get(s, "error", None))
  /\ s.generated_code # ""

\* ------------------------------------------------------- conditional edges
check_execution_error_recovers_generation(s) ==
  IF Get(s, "has_execution_error", FALSE) \/ Get(s, "error", None) = "llm_failed"
    THEN "handle_error" ELSE "update_temp_report"
check_execution_error(s) ==
  IF Get(s, "has_execution_error", FALSE) THEN "handle_error" ELSE "update_temp_report"

after_error_handling_skip_ends(s) ==
  IF Get(s, "paused_for_fix", FALSE) THEN "final_summary"
  ELSE IF Get(s, "user_intervention_mode", None) = "auto_fix" THEN "execute_code"
  ELSE "final_summary"
after_error_handling_regenerates(s) ==
  IF Get(s, "paused_for_fix", FALSE) THEN "final_summary"
  ELSE IF Get(s, "user_intervention_mode", None) = "auto_fix" THEN "generate_code"
  ELSE "decide_continue"
after_error_handling(s) ==
  IF Get(s, "paused_for_fix", FALSE) THEN "final_summary"
  ELSE IF Get(s, "user_intervention_mode", None) = "auto_fix" THEN "execute_code"
  ELSE "decide_continue"

should_continue_analysis_always(s) == "generate_code"
should_continue_analysis_to_end(s) ==
  IF Get(s, "should_continue", FALSE) THEN "generate_code" ELSE "END"
should_continue_analysis(s) ==
  IF Get(s, "should_continue", FALSE) THEN "generate_code" ELSE "final_summary"

\* ------------------------------------------------------------- checkpoints
\* save_state: the document written to the state file
save_state(s) ==
  [ csv_path |-> Get(s, "csv_path", ""),
    csv_info |-> Get(s, "csv_info", "{}"),
    prompt |-> Get(s, "prompt", ""),
    generated_code |-> Get(s, "generated_code", ""),
    execution_result |-> Get(s, "execution_result", EmptyDict),
    error |-> Get(s, "error", None),
    messages |-> Get(s, "messages", <<>>),
    analysis_rounds |-> Get(s, "analysis_rounds", <<>>),
    current_round |-> Get(s, "current_round", 0),
    analysis_plan |-> Get(s, "analysis_plan", <<>>),
    completed_analyses |-> Get(s, "completed_analyses", <<>>),
    temp_report_path |-> Get(s, "temp_report_path", ""),
    should_continue |-> Get(s, "should_continue", TRUE),
    saved_at |-> Now ]

\* the state file save_state leaves behind
WriteFile(doc) == [ exists |-> TRUE, doc |-> doc ]

\* the keys of the document, in the order json.dump writes them
SaveFields ==
  << "csv_path", "csv_info", "prompt", "generated_code", "execution_result",
     "error", "messages", "analysis_rounds", "current_round", "analysis_plan",
     "completed_analyses", "temp_report_path", "should_continue", "saved_at" >>

\* an outcome dict that carries the namespace of a source that ran
HoldsNamespace(result) ==
  "locals" \in DOMAIN result /\ DOMAIN result.locals # {}

\* positions in SaveFields of the values that carry such a namespace: the
\* objects in it (data frames, modules) are what json.dump cannot encode
NamespaceFields(doc) ==
  { i \in 1..Len(SaveFields) :
      \/ SaveFields[i] = "execution_result" /\ HoldsNamespace(doc.execution_result)
      \/ /\ SaveFields[i] = "analysis_rounds"
         /\ \E j \in 1..Len(doc.analysis_rounds) :
               HoldsNamespace(doc.analysis_rounds[j].execution_result) }

\* the file after open(path, 'w') and the first k fields of the document
PartialFile(k) == [ exists |-> TRUE, kind |-> "invalid_json", written |-> k ]

\* save_state, lines 46-48: open(output_path, 'w') empties the file, json.dump
\* writes the document field by field into it; stop = 0: every field is
\* written and the file is closed; stop = k: the write ends before field k
\* (json.dump raises TypeError on its value, or the process is killed)
json_dump(doc, stop) ==
  IF stop = 0 THEN WriteFile(doc) ELSE PartialFile(stop - 1)

\* files at the path given to resume_analysis that save_state did not write:
\* text that is not JSON, JSON that is not an object (a list), and JSON
\* objects without the fields of a checkpoint
NotJsonFile == [ exists |-> TRUE, kind |-> "invalid_json" ]
JsonListFile == [ exists |-> TRUE, kind |-> "not_object" ]
ForeignFiles ==
  { NotJsonFile, JsonListFile, WriteFile(EmptyDict), WriteFile([ csv_path |-> "data.csv" ]) }

\* what load_state finds at the path
FileKind(file) ==
  IF ~file.exists THEN "missing"
  ELSE IF "kind" \in DOMAIN file THEN file.kind
  ELSE "object"

\* what resume_analysis raises before it runs anything, "none" if it goes on:
\* load_state raises FileNotFoundError (line 64) or json.load raises
\* JSONDecodeError (line 67); a list has no .get (graph line 216)
resume_error_reports_bad_json(file) ==
  IF FileKind(file) = "object" THEN "none" ELSE "JSONDecodeError"
resume_error(file) ==
  CASE FileKind(file) = "missing" -> "FileNotFoundError"
    [] FileKind(file) = "invalid_json" -> "JSONDecodeError"
    [] FileKind(file) = "not_object" -> "AttributeError"
    [] OTHER -> "none"

\* load_state: json.load of the file; every value save_state writes (strings,
\* integers, booleans, None, lists and string-keyed dicts of these) is read
\* back as written
load_state(file) == file.doc

\* resume_analysis, lines 220-272: the dict handed to app.invoke;
\* fixed in {"none", "ok", "fail"}: no replacement source, a replacement
\* source that runs, a replacement source that raises
resume_state(saved_state, fixed) ==
  LET result == execute_code_safely("manual", fixed = "ok")
      current_round == Get(saved_state, "current_round", 0)
      analysis_plan == Get(saved_state, "analysis_plan", <<>>)
      current_task == IF current_round > 0 /\ current_round <= Len(analysis_plan)
                        THEN analysis_plan[current_round]
                        ELSE UnknownTask
      round_record == [ round |-> current_round,
                        task |-> current_task,
                        code |-> "manual",
                        execution_result |-> result,
                        timestamp |-> Get(saved_state, "saved_at", "") ]
      executed ==
        IF fixed = "none" THEN saved_state
        ELSE IF result.success
          THEN Merge(saved_state,
                 [ analysis_rounds |->
                     Append(Get(saved_state, "analysis_rounds", <<>>), round_record),
                   completed_analyses |->
                     Append(Get(saved_state, "completed_analyses", <<>>), current_task),
                   generated_code |-> "manual",
                   execution_result |-> result,
                   error |-> None,
                   has_execution_error |-> FALSE ])
          ELSE Merge(saved_state, [ error |-> result.error,
                                    has_execution_error |-> TRUE ])
  IN Merge(executed, [ paused_for_fix |-> FALSE, should_continue |-> TRUE ])

\* ------------------------------------------------------------ observation
\* counters of one invocation of the graph (run_analysis or resume_analysis)
NewHist(caps, resumes, pauses, resumedFrom) ==
  [ nReadSchema |-> 0,      \* read_csv_info_node runs
    nPlan |-> 0,            \* plan_analysis_node runs
    nGenerate |-> 0,        \* generate_code_node runs
    nDecide |-> 0,          \* decide_continue_node runs
    nSummary |-> 0,         \* final_summary_node runs
    execInRound |-> 0,      \* sandbox executions since the round began
    repairInRound |-> 0,    \* Repairer calls since the round began
    oracleCalls |-> 0,      \* oracle consultations
    oracleAllDown |-> TRUE, \* every oracle consultation so far raised
    execAllOk |-> TRUE,     \* every sandbox execution so far succeeded
    genAllOk |-> TRUE,      \* every Generator call so far returned a source
    faults |-> 0,           \* unexpected raises so far (sink, execute_code_node)
    execFailures |-> 0,     \* sandbox executions in which the source raised
    oracleLast |-> "none",  \* "up" / "down": the last consultation's availability
    oracleFlips |-> 0,      \* changes of availability between consultations
    oracleReply |-> "none", \* what the oracle replied in the decide_continue step
                            \* just taken ("none": not asked, or another step)
    recorded |-> FALSE,     \* the step just taken was update_temp_report and
                            \* its sink call returned
    reported |-> <<>>,      \* the entries that step appended to the report
    repairReply |-> "none", \* what the Repairer returned in the handle_error step
                            \* just taken: "source", "nothing" ("none": not
                            \* asked, or another step)
    genCalls |-> 0,         \* Generator (LLM) calls
    nExec |-> 0,            \* sandbox executions
    nRepair |-> 0,          \* Repairer calls
    terminal |-> FALSE,     \* a step has ended the run (see RunTerminal)
    raised |-> "none",      \* the exception that left invoke or resume_analysis
    resumeFile |-> "none",  \* what resume_analysis found at the path (FileKind)
    resumeFixed |-> "none", \* the replacement source given to resume_analysis
    resumeExec |-> 0,       \* executions of the replacement source
    exhausted |-> FALSE,    \* generate_code_node found the next round beyond the plan
    caps |-> caps,          \* the limits of this invocation
    resumes |-> resumes,    \* resume_analysis calls so far
    pauses |-> pauses,      \* manual-fix requests so far
    resumedFrom |-> resumedFrom ]  \* the dict resume_analysis passed to invoke

\* the limits of an invocation: plan length, unexpected raises, failing sources
Caps(plan, faults, execFailures) ==
  [ plan |-> plan, faults |-> faults, execFailures |-> execFailures ]

NotResumed == [ resumed |-> FALSE ]
\* what resume_analysis loaded, whether a replacement source was given and
\* how it ran, and the dict it handed to app.invoke
ResumedFrom(loaded, fixed, passed) ==
  [ resumed |-> TRUE, loaded |-> loaded, fixed |-> fixed, passed |-> passed ]

\* the run is terminal after a step that left the dict s: an error is recorded
\* that is not routed to handle_error (or the run is paused), or one of
\* read_csv_info, plan_analysis, generate_code, decide_continue has set
\* should_continue to False
FlagSteps == {"read_csv_info", "plan_analysis", "generate_code", "decide_continue"}
RunTerminal(s, step) ==
  \/ /\ Truthy(Get(s, "error", None))
     /\ (~Get(s, "has_execution_error", FALSE) \/ Get(s, "paused_for_fix", FALSE))
  \/ step \in FlagSteps /\ ~Get(s, "should_continue", FALSE)

SinkOutcomes == IF hist.faults < hist.caps.faults THEN BOOLEAN ELSE {TRUE}
SinkCount(sink_ok) == IF sink_ok THEN hist.faults ELSE hist.faults + 1

\* ----------------------------------------------------------------- actions
\* run_analysis has built initial_state and calls app.invoke
Init ==
  /\ state = InitialState
  /\ pc = "read_csv_info"
  /\ checkpoint = NoFile
  /\ hist = NewHist(Caps(MaxPlanLen, MaxFaults, MaxExecFailures), 0, 0, NotResumed)

\* read_csv_info_node reads state["csv_path"] before its try block (line 57):
\* without that key the KeyError leaves invoke
ReadCsvInfo ==
  /\ pc = "read_csv_info"
  /\ IF "csv_path" \in DOMAIN state
       THEN /\ \E ok \in BOOLEAN : state' = read_csv_info_node(state, ok)
            /\ pc' = "plan_analysis"
            /\ hist' = [hist EXCEPT !.nReadSchema = @ + 1,
                                    !.terminal = @ \/ RunTerminal(state', "read_csv_info")]
       ELSE /\ state' = state
            /\ pc' = "RAISED"
            /\ hist' = [hist EXCEPT !.nReadSchema = @ + 1, !.raised = "KeyError"]
  /\ UNCHANGED checkpoint

PlanAnalysis ==
  /\ pc = "plan_analysis"
  /\ \E llm \in {"tasks", "bad_json", "raise"}, n \in 0..hist.caps.plan, sink_ok \in SinkOutcomes :
       /\ llm # "tasks" => n = 0
       /\ llm = "bad_json" => Len(DefaultPlan) <= hist.caps.plan
       /\ state' = plan_analysis_node(state, llm, n, sink_ok)
       /\ hist' = [hist EXCEPT !.nPlan = @ + 1,
                               !.faults = IF Truthy(state.error) \/ llm = "raise"
                                                THEN @ ELSE SinkCount(sink_ok),
                               !.terminal = @ \/ RunTerminal(state', "plan_analysis")]
  /\ pc' = "generate_code"
  /\ UNCHANGED checkpoint

GenerateCode ==
  /\ pc = "generate_code"
  /\ \E llm \in {"code", "empty", "raise"} :
       LET called == generator_called(state)
       IN /\ ~called => llm = "code"
          /\ state' = generate_code_node(state, llm)
          /\ hist' = [hist EXCEPT !.nGenerate = @ + 1,
                                  !.oracleReply = "none",
                                  !.execInRound = IF called THEN 0 ELSE @,
                                  !.repairInRound = IF called THEN 0 ELSE @,
                                  !.genAllOk = @ /\ llm = "code",
                                  !.genCalls = IF called THEN @ + 1 ELSE @,
                                  !.exhausted = @ \/ ( /\ ~Truthy(state.error)
                                                       /\ state.current_round + 1
                                                            > Len(state.analysis_plan) ),
                                  !.terminal = @ \/ RunTerminal(state', "generate_code")]
  /\ pc' = "execute_code"
  /\ UNCHANGED checkpoint

ExecuteCode ==
  /\ pc = "execute_code"
  /\ \E outcome \in {"ok", "fail", "raise"} :
       LET called == sandbox_called(state)
       IN /\ ~called => outcome = "ok"
          /\ outcome = "raise" => hist.faults < hist.caps.faults
          /\ outcome = "fail" => hist.execFailures < hist.caps.execFailures
          /\ state' = execute_code_node(state, outcome)
          /\ hist' = [hist EXCEPT !.execInRound = IF called THEN @ + 1 ELSE @,
                                  !.repairReply = "none",
                                  !.execAllOk = @ /\ outcome = "ok",
                                  !.faults = IF outcome = "raise" THEN @ + 1 ELSE @,
                                  !.execFailures = IF outcome = "fail" THEN @ + 1 ELSE @,
                                  !.nExec = IF called THEN @ + 1 ELSE @,
                                  !.terminal = @ \/ RunTerminal(state', "execute_code")]
  /\ pc' = check_execution_error(state')
  /\ UNCHANGED checkpoint

HandleError ==
  /\ pc = "handle_error"
  /\ \E repair_ok \in BOOLEAN :
       LET called == user_choice(state.error_retry_count) = "auto_fix"
       IN /\ ~called => repair_ok
          /\ state' = handle_error_node(state, repair_ok)
          /\ hist' = [hist EXCEPT !.repairInRound = IF called THEN @ + 1 ELSE @,
                                  !.nRepair = IF called THEN @ + 1 ELSE @,
                                  !.repairReply = IF ~called THEN "none"
                                                  ELSE IF repair_ok THEN "source"
                                                  ELSE "nothing",
                                  !.terminal = @ \/ RunTerminal(state', "handle_error")]
  /\ pc' = after_error_handling(state')
  /\ checkpoint' = IF user_choice(state.error_retry_count) = "manual_fix"
                     THEN WriteFile(save_state(state)) ELSE checkpoint

UpdateTempReport ==
  /\ pc = "update_temp_report"
  /\ \E sink_ok \in SinkOutcomes :
       /\ state' = update_temp_report_node(state, sink_ok)
       /\ hist' = [hist EXCEPT !.faults = SinkCount(sink_ok),
                               !.recorded = sink_ok,
                               !.reported = IF sink_ok THEN report_entries(state)
                                            ELSE <<>>,
                               !.terminal = @ \/ RunTerminal(state', "update_temp_report")]
  /\ pc' = "decide_continue"
  /\ UNCHANGED checkpoint

DecideContinue ==
  /\ pc = "decide_continue"
  /\ \E oracle \in {"continue", "stop", "unparsable", "unavailable"} :
       LET called == /\ ~Truthy(state.error)
                     /\ state.current_round < MAX_ROUNDS
                     /\ state.current_round < Len(state.analysis_plan)
           avail == IF oracle = "unavailable" THEN "down" ELSE "up"
           flips == IF called /\ hist.oracleLast \notin {"none", avail}
                      THEN hist.oracleFlips + 1 ELSE hist.oracleFlips
       IN /\ ~called => oracle = "continue"
          /\ flips <= MaxOracleFlips
          /\ state' = decide_continue_node(state, oracle)
          /\ hist' = [hist EXCEPT !.nDecide = @ + 1,
                                  !.repairReply = "none",
                                  !.recorded = FALSE,
                                  !.reported = <<>>,
                                  !.oracleCalls = IF called THEN @ + 1 ELSE @,
                                  !.oracleAllDown = @ /\ (called => oracle = "unavailable"),
                                  !.oracleLast = IF called THEN avail ELSE @,
                                  !.oracleFlips = flips,
                                  !.oracleReply = IF called THEN oracle ELSE "none",
                                  !.terminal = @ \/ RunTerminal(state', "decide_continue")]
  /\ pc' = should_continue_analysis(state')
  /\ UNCHANGED checkpoint

FinalSummary ==
  /\ pc = "final_summary"
  /\ \E sink_ok \in SinkOutcomes :
       /\ state' = final_summary_node(state, sink_ok)
       /\ hist' = [hist EXCEPT !.nSummary = @ + 1, !.faults = SinkCount(sink_ok),
                               !.oracleReply = "none",
                               !.repairReply = "none",
                               !.terminal = @ \/ RunTerminal(state', "final_summary")]
  /\ pc' = "END"
  /\ UNCHANGED checkpoint

\* create_analysis_graph: the compiled graph, one node per step
Next ==
  \/ ReadCsvInfo
  \/ PlanAnalysis
  \/ GenerateCode
  \/ ExecuteCode
  \/ HandleError
  \/ UpdateTempReport
  \/ DecideContinue
  \/ FinalSummary

Spec == Init /\ [][Next]_vars

\* run_analysis, with the fault limit of the fair runs
InitFair ==
  /\ state = InitialState
  /\ pc = "read_csv_info"
  /\ checkpoint = NoFile
  /\ hist = NewHist(Caps(MaxPlanLen, FairFaults, MaxExecFailures), 0, 0, NotResumed)

\* app.invoke runs the graph to END: a node that can run does run
FairSpec == InitFair /\ [][Next]_vars /\ WF_vars(Next)

\* -------------------------------------------------------- pause and resume
\* run_analysis, in a deployment where a manual fix can be requested
InitResume ==
  /\ state = InitialState
  /\ pc = "read_csv_info"
  /\ checkpoint = NoFile
  /\ hist = NewHist(Caps(ResumePlanLen, ResumeFaults, ResumeExecFailures), 0, 0, NotResumed)

\* handle_error_node taking its manual_fix branch (lines 527-543): the state
\* is saved, the run is marked paused
HandleErrorManualFix ==
  /\ pc = "handle_error"
  /\ hist.pauses < MaxPauses
  /\ \E stop \in {0} \cup NamespaceFields(save_state(state)) :
       /\ checkpoint' = json_dump(save_state(state), stop)
       /\ IF stop = 0
            THEN /\ state' = handle_error_choice(state, "manual_fix", TRUE)
                 /\ pc' = after_error_handling(state')
                 /\ hist' = [hist EXCEPT !.pauses = @ + 1,
                                         !.terminal = @ \/ RunTerminal(state', "handle_error")]
            ELSE /\ state' = state
                 /\ pc' = "RAISED"
                 /\ hist' = [hist EXCEPT !.pauses = @ + 1, !.raised = "TypeError"]

\* resume_analysis(state_file, fixed_code), called once the paused invocation
\* has returned: load, optionally run the replacement source, invoke the graph
ResumeAnalysis ==
  /\ pc = "END"
  /\ hist.resumes < MaxResumes
  /\ \E fixed \in {"none", "ok", "fail"} :
       IF resume_error(checkpoint) # "none"
         THEN /\ state' = state
              /\ pc' = "RAISED"
              /\ hist' = [hist EXCEPT !.resumes = @ + 1,
                                      !.raised = resume_error(checkpoint),
                                      !.resumeFile = FileKind(checkpoint),
                                      !.resumeFixed = fixed]
         ELSE LET saved_state == load_state(checkpoint)
              IN /\ state' = resume_state(saved_state, fixed)
                 /\ pc' = "read_csv_info"
                 /\ hist' = [NewHist(hist.caps, hist.resumes + 1, hist.pauses,
                                     ResumedFrom(saved_state, fixed, state'))
                               EXCEPT !.resumeFile = "object",
                                      !.resumeFixed = fixed,
                                      !.resumeExec = IF fixed = "none" THEN 0 ELSE 1]
  /\ UNCHANGED checkpoint

NextResume ==
  \/ Next
  \/ HandleErrorManualFix
  \/ ResumeAnalysis

SpecResume == InitResume /\ [][NextResume]_vars

\* resume_analysis called on a path that holds no checkpoint of a paused run:
\* nothing, or one of ForeignFiles
InitLoad ==
  /\ state = InitialState
  /\ pc = "END"
  /\ checkpoint \in ForeignFiles \cup {NoFile}
  /\ hist = NewHist(Caps(LoadPlanLen, LoadFaults, LoadExecFailures), 0, 0, NotResumed)

SpecLoad == InitLoad /\ [][NextResume]_vars

\* app.invoke runs the graph to END; calling resume_analysis is the caller's choice
FairSpecResume == SpecResume /\ WF_vars(Next)

\* ================================================================= claims
IsPrefix(p, q) == Len(p) <= Len(q) /\ SubSeq(q, 1, Len(p)) = p
Min(a, b) == IF a <= b THEN a ELSE b

C6_ResumeAppendsOneRecord ==
  (hist.resumedFrom.resumed /\ hist.resumedFrom.fixed = "ok") =>
    LET base == hist.resumedFrom.loaded.analysis_rounds
        paused_round == hist.resumedFrom.loaded.current_round
        ledger == state.analysis_rounds
    IN /\ Len(ledger) > Len(base)
       /\ IsPrefix(base, ledger)
       /\ ledger[Len(base) + 1].round = paused_round
       /\ ledger[Len(base) + 1].execution_result.success
       /\ \A i \in (Len(base) + 2)..Len(ledger) : ledger[i].round > paused_round
       /\ pc = "END" => hist.nDecide >= 1

\* C7: a resumed run starts with paused_for_fix false and should_continue
\* true, does not run read_csv_info or plan_analysis again, and continues with
\* the checkpoint's plan, round, completed tasks, ledger and progress log.
C7_ResumeContinuesFromCheckpoint ==
  hist.resumedFrom.resumed =>
    LET loaded == hist.resumedFrom.loaded
    IN /\ ~hist.resumedFrom.passed.paused_for_fix
       /\ hist.resumedFrom.passed.should_continue
       /\ hist.nReadSchema = 0
       /\ hist.nPlan = 0
       /\ state.analysis_plan = loaded.analysis_plan
       /\ state.current_round >= loaded.current_round
       /\ IsPrefix(loaded.completed_analyses, state.completed_analyses)
       /\ IsPrefix(loaded.analysis_rounds, state.analysis_rounds)
       /\ IsPrefix(loaded.messages, state.messages)

\* C8: the state read back from a checkpoint equals, field by field, the
\* state that was saved.
C8_CheckpointRoundTrip ==
  [][ checkpoint' # checkpoint =>
        LET loaded == load_state(checkpoint')
        IN \A k \in DOMAIN state : k \in DOMAIN loaded /\ loaded[k] = state[k] ]_vars

\* the case of C9: every oracle consultation raised, every sandbox execution
\* succeeded, the Generator returned a source at every call
C9_Case ==
  /\ pc = "END"
  /\ hist.oracleAllDown
  /\ hist.execAllOk
  /\ hist.genAllOk

\* C9 as stated: with the oracle unreachable and every Execute succeeding the
\* run ends after exactly len(Plan) rounds.
C9_FallbackRunsWholePlan ==
  C9_Case => /\ state.current_round = Len(state.analysis_plan)
             /\ Len(state.analysis_rounds) = Len(state.analysis_plan)

\* C9 amended: with the oracle unreachable and every Execute succeeding the
\* run ends after exactly min(len(Plan), MAX_ROUNDS) rounds.
C9_FallbackRunsPlanUpToCap ==
  C9_Case => /\ state.current_round = Min(Len(state.analysis_plan), MAX_ROUNDS)
             /\ Len(state.analysis_rounds) = Min(Len(state.analysis_plan), MAX_ROUNDS)

\* a three-task plan run to its end on the fallback alone
C9_Witness ==
  /\ C9_Case
  /\ Len(state.analysis_plan) = 3
  /\ hist.oracleCalls = 2
  /\ state.current_round = 3

\* C10: current_round never exceeds MAX_ROUNDS, and the round numbers of the
\* ledger records never decrease along the ledger.
C10_RoundCapAndOrder ==
  /\ state.current_round <= MAX_ROUNDS
  /\ \A i \in 1..(Len(state.analysis_rounds) - 1) :
       state.analysis_rounds[i].round <= state.analysis_rounds[i + 1].round

\* the cap reached under a longer plan, with a retried round in the ledger
C10_Witness ==
  /\ state.current_round = MAX_ROUNDS
  /\ Len(state.analysis_plan) > MAX_ROUNDS
  /\ Len(state.analysis_rounds) > MAX_ROUNDS

SkippedRounds ==
  { state.messages[k][2] : k \in { i \in 1..Len(state.messages) :
        state.messages[i][1] \in {"skipped", "fix_failed_skip"} } }

\* C14: the task of a skipped round is never in completed_analyses, and
\* completed_analyses only grows by the task of the current round, appended
\* by an execute_code step of that round whose execution succeeded.
C14_SkippedNeverCompleted ==
  /\ [](\A n \in SkippedRounds :
          \A k \in 1..Len(state.completed_analyses) :
            state.completed_analyses[k] # state.analysis_plan[n])
  /\ [][state'.completed_analyses # state.completed_analyses =>
          /\ pc = "execute_code"
          /\ hist'.nExec = hist.nExec + 1
          /\ state'.current_round = state.current_round
          /\ state'.completed_analyses =
               Append(state.completed_analyses, state.analysis_plan[state.current_round])
          /\ state'.execution_result.success
          /\ state'.analysis_rounds[Len(state'.analysis_rounds)].round = state.current_round
          /\ ~(state.current_round \in SkippedRounds)]_vars

\* round 1 was skipped after its retries, round 2 succeeded, the run ended
C14_Witness ==
  /\ pc = "END"
  /\ 1 \in SkippedRounds
  /\ Len(state.analysis_plan) >= 2
  /\ state.completed_analyses = << state.analysis_plan[2] >>

\* C15: when handle_error runs with error_retry_count >= MAX_RETRY it skips
\* the round: the Repairer is not called, the counter is reset to 0, the error
\* is cleared, the round's task is not in completed_analyses, and the next
\* step is decide_continue.
C15_ExhaustedRetriesSkip ==
  [][ (pc = "handle_error" /\ state.error_retry_count >= MAX_RETRY)
      => ( /\ state'.user_intervention_mode = "skip"
           /\ hist'.nRepair = hist.nRepair
           /\ state'.error_retry_count = 0
           /\ state'.error = None
           /\ ~state'.has_execution_error
           /\ state'.completed_analyses = state.completed_analyses
           /\ \A k \in 1..Len(state'.completed_analyses) :
                state'.completed_analyses[k] # state.analysis_plan[state.current_round]
           /\ state'.current_round = state.current_round
           /\ pc' = "decide_continue" ) ]_vars

\* the source failed after MAX_RETRY repairs and the round has been skipped
C15_Witness ==
  /\ pc = "decide_continue"
  /\ hist.repairInRound = MAX_RETRY
  /\ hist.execInRound = MAX_RETRY + 1
  /\ state.user_intervention_mode = "skip"
  /\ state.error_retry_count = 0
  /\ state.error = None

\* C16: when execute_code_node itself records an error (the source raised,
\* the node's try block raised, or there was no source to run) the next step
\* is handle_error; when it ends without an error the next step is
\* update_temp_report.
C16_ExecuteErrorGoesToRecover ==
  [][ (pc = "execute_code" /\ ~Truthy(state.error))
      => ( /\ Truthy(state'.error) => pc' = "handle_error"
           /\ ~Truthy(state'.error) => pc' = "update_temp_report" ) ]_vars

\* the progress log holds the Generator's failure
GenFailed ==
  \E k \in 1..Len(state.messages) : state.messages[k][1] = "llm_failed"

\* C17: once generate_code_node has recorded a Generator failure, no source
\* is executed, the Repairer and the oracle are not called, the Generator is
\* not called again and no record is appended; the remaining nodes are passed
\* in order (execute_code, update_temp_report, decide_continue) and
\* final_summary is entered with that error recorded.
C17_GeneratorFailureFatal ==
  /\ [](GenFailed =>
          /\ pc \in {"execute_code", "update_temp_report", "decide_continue",
                     "final_summary", "END"}
          /\ pc # "END" => state.error = "llm_failed"
          /\ ~state.should_continue)
  /\ [][GenFailed =>
          /\ hist'.nExec = hist.nExec
          /\ hist'.nRepair = hist.nRepair
          /\ hist'.oracleCalls = hist.oracleCalls
          /\ hist'.genCalls = hist.genCalls
          /\ state'.analysis_rounds = state.analysis_rounds
          /\ state'.completed_analyses = state.completed_analyses
          /\ state'.current_round = state.current_round
          /\ pc = "execute_code" => pc' = "update_temp_report"
          /\ pc = "update_temp_report" => pc' = "decide_continue"
          /\ pc = "decide_continue" => pc' = "final_summary"
          /\ pc = "final_summary" => pc' = "END"]_vars

\* the Generator failed in round 2, after a round that succeeded, and the run
\* has ended with one record
C17_Witness ==
  /\ pc = "END"
  /\ GenFailed
  /\ state.error = "llm_failed"
  /\ state.current_round = 2
  /\ Len(state.analysis_rounds) = 1
  /\ hist.nSummary = 1

\* the progress log holds a failure of read_csv_info_node or plan_analysis_node
EarlyFailure ==
  { state.messages[k][1] : k \in { i \in 1..Len(state.messages) :
        state.messages[i][1] \in {"read_failed", "plan_failed"} } }

\* C18: once read_csv_info_node or plan_analysis_node has failed,
\* current_round stays 0, the ledger stays empty, the Generator, the sandbox,
\* the Repairer and the oracle are never called, handle_error is never
\* entered, every later node up to final_summary finds that error recorded
\* and the nodes are passed in order to final_summary and END.
C18_EarlyFailureFatal ==
  /\ [](EarlyFailure # {} =>
          /\ state.current_round = 0
          /\ state.analysis_rounds = <<>>
          /\ state.completed_analyses = <<>>
          /\ hist.genCalls = 0
          /\ hist.nExec = 0
          /\ hist.nRepair = 0
          /\ hist.oracleCalls = 0
          /\ pc # "handle_error"
          /\ pc # "END" => EarlyFailure = {state.error}
          /\ ~state.should_continue)
  /\ [][EarlyFailure # {} =>
          /\ pc = "plan_analysis" => pc' = "generate_code"
          /\ pc = "generate_code" => pc' = "execute_code"
          /\ pc = "execute_code" => pc' = "update_temp_report"
          /\ pc = "update_temp_report" => pc' = "decide_continue"
          /\ pc = "decide_continue" => pc' = "final_summary"
          /\ pc = "final_summary" => pc' = "END"]_vars

\* the planner failed and the run has ended with its error
C18_Witness ==
  /\ pc = "END"
  /\ EarlyFailure = {"plan_failed"}
  /\ state.error = "plan_failed"
  /\ hist.nSummary = 1
  /\ hist.nGenerate = 1

\* C19: once generate_code_node has found the plan exhausted, no source is
\* executed, no record is appended, completed_analyses does not change,
\* execute_code_node records no error, and neither handle_error nor
\* generate_code is entered.
C19_ExhaustedPlanSkipsExecute ==
  /\ [](hist.exhausted => pc \notin {"handle_error", "generate_code"})
  /\ [][hist.exhausted =>
          /\ hist'.nExec = hist.nExec
          /\ state'.analysis_rounds = state.analysis_rounds
          /\ state'.completed_analyses = state.completed_analyses
          /\ pc = "execute_code" => state'.error = state.error]_vars

\* the answer of the ContinuationOracle for a reply of the external oracle:
\* its decision, or the local fallback (continue while the round is below the
\* plan length) when the call raised or the reply could not be parsed
OracleSaysContinue(s, reply) ==
  IF reply \in {"continue", "stop"}
    THEN reply = "continue"
    ELSE s.current_round < Len(s.analysis_plan)

\* C20: after decide_continue the next step is generate_code exactly when the
\* oracle was asked, its answer is continue and current_round is below
\* MAX_ROUNDS; otherwise (answer stop, cap reached, error recorded, plan
\* done) it is final_summary, and from then on the Generator and the sandbox
\* are not called and current_round does not change.
C20_ContinueBranch ==
  /\ [][pc = "decide_continue" =>
          /\ pc' \in {"generate_code", "final_summary"}
          /\ pc' = "generate_code" <=>
                ( /\ hist'.oracleReply # "none"
                  /\ OracleSaysContinue(state, hist'.oracleReply)
                  /\ state.current_round < MAX_ROUNDS
                  /\ ~Truthy(state.error) )
          /\ (Truthy(state.error) \/ state.current_round >= MAX_ROUNDS)
                => hist'.oracleReply = "none"]_vars
  /\ [][(pc = "final_summary" \/ pc = "END") =>
          /\ hist'.genCalls = hist.genCalls
          /\ hist'.nExec = hist.nExec
          /\ state'.current_round = state.current_round
          /\ state'.analysis_rounds = state.analysis_rounds]_vars

\* the oracle answered stop after round 2 of a longer plan and the run ended
\* with the remaining tasks not generated
C20_Witness ==
  /\ pc = "END"
  /\ ~Truthy(state.error)
  /\ state.messages[Len(state.messages) - 2] = Msg("llm_stop", 2)
  /\ hist.genCalls = 2
  /\ Len(state.analysis_plan) > 2

\* what the external oracle can do when it is asked
OracleReplies == {"continue", "stop", "unparsable", "unavailable"}

\* C21: when decide_continue runs with current_round >= len(analysis_plan),
\* should_continue becomes False and the next step is final_summary, whatever
\* the oracle would reply, and the oracle is not asked.
C21_PlanDoneStops ==
  /\ []((pc = "decide_continue" /\ state.current_round >= Len(state.analysis_plan))
        => \A oracle \in OracleReplies :
             LET t == decide_continue_node(state, oracle)
             IN /\ ~t.should_continue
                /\ should_continue_analysis(t) = "final_summary")
  /\ [][(pc = "decide_continue" /\ state.current_round >= Len(state.analysis_plan))
        => /\ ~state'.should_continue
           /\ pc' = "final_summary"
           /\ hist'.oracleCalls = hist.oracleCalls]_vars

\* the last task of a two-task plan has run without error and decide_continue
\* has sent the run to final_summary
C21_Witness ==
  /\ pc = "final_summary"
  /\ ~Truthy(state.error)
  /\ state.current_round = 2
  /\ Len(state.analysis_plan) = 2
  /\ state.messages[Len(state.messages)] = Msg("plan_done", 0)

\* C22: when the oracle call raises or its reply cannot be parsed,
\* decide_continue sets should_continue to current_round < len(analysis_plan)
\* and the next step follows that value.
C22_FallbackRule ==
  /\ []((pc = "decide_continue" /\ ~Truthy(state.error)
                                /\ state.current_round < MAX_ROUNDS)
        => \A oracle \in {"unparsable", "unavailable"} :
             decide_continue_node(state, oracle).should_continue
               <=> state.current_round < Len(state.analysis_plan))
  /\ [][(pc = "decide_continue" /\ hist'.oracleReply \in {"unparsable", "unavailable"})
        => /\ state'.should_continue
                <=> state.current_round < Len(state.analysis_plan)
           /\ pc' = IF state.current_round < Len(state.analysis_plan)
                      THEN "generate_code" ELSE "final_summary"]_vars

\* the oracle's reply after round 1 could not be parsed and the run goes on
C22_Witness ==
  /\ pc = "generate_code"
  /\ hist.oracleReply = "unparsable"
  /\ state.should_continue
  /\ state.current_round = 1
  /\ Len(state.analysis_plan) > 1

\* C23: in a run of run_analysis with no manual-fix request, the retry-count
\* rule chooses only auto_fix or skip, paused_for_fix is False in every
\* state, no checkpoint is written, and handle_error is never followed by
\* final_summary.
C23_NoPauseWithoutRequest ==
  /\ [](/\ \A n \in 0..(MAX_RETRY + 1) : user_choice(n) \in {"auto_fix", "skip"}
        /\ state.user_intervention_mode \in {None, "auto_fix", "skip"}
        /\ ~state.paused_for_fix
        /\ checkpoint = NoFile
        /\ hist.pauses = 0)
  /\ [][pc = "handle_error" =>
          /\ pc' \in {"execute_code", "decide_continue"}
          /\ user_choice(state.error_retry_count) = "skip"
                => state'.user_intervention_mode = "skip"]_vars

\* handle_error has run with the retry count exhausted and with it below the
\* limit, and the run has ended
C23_Witness ==
  /\ pc = "END"
  /\ hist.nRepair >= MAX_RETRY
  /\ 1 \in SkippedRounds
  /\ state.user_intervention_mode = "skip"

\* C24: when resume_analysis is given a replacement source, the state it
\* hands to the graph has the checkpointed ledger followed by exactly one
\* record of the paused round that holds the replacement source and its
\* outcome, success or failure.
C24_ReplacementRecorded ==
  (hist.resumedFrom.resumed /\ hist.resumedFrom.fixed # "none") =>
    LET base == hist.resumedFrom.loaded.analysis_rounds
        ledger == hist.resumedFrom.passed.analysis_rounds
    IN /\ Len(ledger) = Len(base) + 1
       /\ IsPrefix(base, ledger)
       /\ ledger[Len(ledger)].round = hist.resumedFrom.loaded.current_round
       /\ ledger[Len(ledger)].code = "manual"
       /\ ledger[Len(ledger)].execution_result.success = (hist.resumedFrom.fixed = "ok")

\* the fields of a checkpoint document
CheckpointFields == DOMAIN save_state(InitialState)

\* resume_analysis was called on a file that is not a checkpoint document
ResumedOnCorruptFile ==
  \/ hist.resumeFile \in {"invalid_json", "not_object"}
  \/ /\ hist.resumeFile = "object"
     /\ ~(CheckpointFields \subseteq DOMAIN hist.resumedFrom.loaded)

\* C25: resume_analysis on a file that is not JSON, not a JSON object, or an
\* object without the checkpoint fields raises before the replacement source
\* is executed and before any node of the graph runs.
C25_CorruptCheckpointRejected ==
  ResumedOnCorruptFile =>
    /\ pc = "RAISED"
    /\ hist.raised # "none"
    /\ hist.resumeExec = 0
    /\ hist.nReadSchema = 0

\* C26: resume_analysis on a path where no file exists raises
\* FileNotFoundError to its caller: the replacement source is not executed,
\* no node of the graph runs, no report is produced, nothing is written.
C26_MissingCheckpointRaises ==
  /\ [](hist.resumeFile = "missing" =>
          /\ pc = "RAISED"
          /\ hist.raised = "FileNotFoundError"
          /\ hist.resumeExec = 0
          /\ hist.nReadSchema = 0
          /\ hist.nSummary = 0
          /\ state = InitialState
          /\ checkpoint = NoFile)
  /\ [][(pc = "END" /\ checkpoint = NoFile /\ hist'.resumes # hist.resumes)
        => (pc' = "RAISED" /\ hist'.resumeFile = "missing")]_vars

\* resume_analysis was called with a replacement source on a missing file
C26_Witness ==
  /\ pc = "RAISED"
  /\ hist.resumeFile = "missing"
  /\ hist.resumeFixed = "ok"
  /\ hist.resumes = 1

\* ------------------------------------------------------------------
\* The natural-language query pipeline:
\* read_db_info -> generate_sql -> validate_sql -> execute_sql
\*   -> interpret_results -> END
\* An SQL text is a sequence of tokens; the first token is what
\* startswith() sees, a token anywhere is what re.search() finds.
\* ------------------------------------------------------------------

\* longest SQL text the generator returns
MaxSqlLen == 2

SqlTokens == {"select", "with", "drop", "union", "--", "name"}

SqlTexts == UNION {[1..n -> SqlTokens] : n \in 0..MaxSqlLen}

\* what the generator's call gives: an exception, or a reply with its SQL
SqlReplies ==
  {[raises |-> FALSE, sql |-> t] : t \in SqlTexts}
    \cup {[raises |-> TRUE, sql |-> <<>>]}

DbOutcomes == {"ok", "sqlite_error"}

dangerous_keywords ==
  {"drop", "delete", "truncate", "update", "insert", "alter",
   "create", "grant", "revoke", "exec", "execute", "pragma"}

\* r'--' anywhere, or r'union.*select'
injection_patterns(sql) ==
  \/ \E i \in 1..Len(sql) : sql[i] = "--"
  \/ \E i, j \in 1..Len(sql) : i < j /\ sql[i] = "union" /\ sql[j] = "select"

validate_sql_safety(sql) ==
  IF \E i \in 1..Len(sql) : sql[i] \in dangerous_keywords
    THEN [is_safe |-> FALSE, error |-> "dangerous_keyword"]
  ELSE IF injection_patterns(sql)
    THEN [is_safe |-> FALSE, error |-> "injection_pattern"]
  ELSE IF Len(sql) = 0 \/ sql[1] \notin {"select", "with"}
    THEN [is_safe |-> FALSE, error |-> "select_only"]
  ELSE [is_safe |-> TRUE, error |-> ""]

SqlFailure(error) == [success |-> FALSE, row_count |-> 0, error |-> error]

\* result: the dict the function returns; connected: whether it got as
\* far as sqlite3.connect with the text
execute_sql_safely(sql, db_exists, db_outcome) ==
  IF ~db_exists
    THEN [result |-> SqlFailure("db_missing"), connected |-> FALSE]
  ELSE IF ~validate_sql_safety(sql).is_safe
    THEN [result |-> SqlFailure("validation_failed"), connected |-> FALSE]
  ELSE [result |-> IF db_outcome = "ok"
                     THEN [success |-> TRUE, row_count |-> 1, error |-> ""]
                     ELSE SqlFailure(db_outcome),
        connected |-> TRUE]

SqlInitialState ==
  [ db_path |-> "db.sqlite",
    db_info |-> EmptyDict,
    natural_language_query |-> "query",
    generated_sql |-> <<>>,
    sql_validation_result |-> EmptyDict,
    sql_execution_result |-> EmptyDict,
    interpretation |-> "",
    error |-> None,
    messages |-> <<>>,
    query_history |-> <<>>,
    current_query_index |-> 0 ]

read_db_info_node(s, ok) ==
  IF ok
    THEN Merge(s, [db_info |-> [table_count |-> 1], error |-> None,
                   messages |-> <<"db_read">>])
    ELSE Merge(s, [db_info |-> EmptyDict, error |-> "db_read_failed",
                   messages |-> <<"db_read_failed">>])

\* llm: whether the call raises, and the SQL text extracted from the reply
generate_sql_node(s, llm) ==
  IF Truthy(s.error) THEN s
  ELSE IF llm.raises
    THEN Merge(s, [generated_sql |-> <<>>, error |-> "llm_failed",
                   messages |-> Append(s.messages, "llm_failed")])
  ELSE Merge(s, [generated_sql |-> llm.sql,
                 messages |-> Append(s.messages, "sql_generated")])

validate_sql_node(s) ==
  IF Truthy(s.error) THEN s
  ELSE IF s.generated_sql = <<>>
    THEN Merge(s, [error |-> "no_sql_to_validate",
                   messages |-> Append(s.messages, "no_sql_to_validate")])
  ELSE LET v == validate_sql_safety(s.generated_sql) IN
       Merge(s, [sql_validation_result |-> v,
                 error |-> IF v.is_safe THEN None ELSE "validation_failed",
                 messages |-> Append(s.messages,
                    IF v.is_safe THEN "validated" ELSE "validation_failed")])

execute_sql_node(s, db_exists, db_outcome) ==
  IF Truthy(s.error) THEN s
  ELSE IF s.generated_sql = <<>>
    THEN Merge(s, [error |-> "no_sql_to_execute",
                   messages |-> Append(s.messages, "no_sql_to_execute")])
  ELSE LET result == execute_sql_safely(s.generated_sql, db_exists, db_outcome).result IN
       Merge(s, [sql_execution_result |-> result,
                 query_history |-> Append(s.query_history,
                    [query |-> s.natural_language_query,
                     sql |-> s.generated_sql,
                     result |-> result,
                     timestamp |-> Now]),
                 error |-> IF result.success THEN None ELSE result.error,
                 messages |-> Append(s.messages,
                    IF result.success THEN "executed" ELSE "execution_failed")])

interpret_results_node(s, llm_ok) ==
  IF Truthy(s.error) THEN s
  ELSE IF ~Get(s.sql_execution_result, "success", FALSE)
    THEN Merge(s, [interpretation |-> "",
                   messages |-> Append(s.messages, "nothing_to_interpret")])
  ELSE Merge(s, [interpretation |-> IF llm_ok THEN "llm" ELSE "default",
                 messages |-> Append(s.messages,
                    IF llm_ok THEN "interpreted" ELSE "default_interpretation")])

check_validation_ignores_verdict(s) == "execute"

check_validation(s) ==
  IF Truthy(s.error) THEN "end"
  ELSE IF Get(s.sql_validation_result, "is_safe", FALSE) THEN "execute"
  ELSE "end"

check_execution(s) ==
  IF Get(s.sql_execution_result, "success", FALSE) THEN "interpret" ELSE "end"

\* whether a node of the query pipeline, given s, gets as far as its external
\* call: the SQL generator, validate_sql_safety, execute_sql_safely, the
\* interpreter
sql_generator_called(s) == ~Truthy(s.error)
sql_validator_called(s) == ~Truthy(s.error) /\ s.generated_sql # <<>>
database_called(s) == ~Truthy(s.error) /\ s.generated_sql # <<>>
interpreter_called(s) ==
  ~Truthy(s.error) /\ Get(s.sql_execution_result, "success", FALSE)

\* what the query pipeline did: calls of execute_sql_node, the texts a
\* connection was opened for, the texts of the direct calls
NewSqlHist == [ nExecuteSql |-> 0, connected |-> <<>>, direct |-> <<>> ]

InitSql ==
  /\ state = SqlInitialState
  /\ pc = "read_db_info"
  /\ checkpoint = NoFile
  /\ hist = NewSqlHist

ReadDbInfo ==
  /\ pc = "read_db_info"
  /\ \E ok \in BOOLEAN : state' = read_db_info_node(state, ok)
  /\ pc' = "generate_sql"
  /\ UNCHANGED <<checkpoint, hist>>

GenerateSql ==
  /\ pc = "generate_sql"
  /\ \E llm \in SqlReplies : state' = generate_sql_node(state, llm)
  /\ pc' = "validate_sql"
  /\ UNCHANGED <<checkpoint, hist>>

ValidateSql ==
  /\ pc = "validate_sql"
  /\ state' = validate_sql_node(state)
  /\ pc' = IF check_validation(state') = "execute" THEN "execute_sql" ELSE "END"
  /\ UNCHANGED <<checkpoint, hist>>

ExecuteSql ==
  /\ pc = "execute_sql"
  /\ \E db_exists \in BOOLEAN, db_outcome \in DbOutcomes :
       /\ state' = execute_sql_node(state, db_exists, db_outcome)
       /\ hist' = [hist EXCEPT
            !.nExecuteSql = @ + 1,
            !.connected =
              IF /\ ~Truthy(state.error)
                 /\ state.generated_sql # <<>>
                 /\ execute_sql_safely(state.generated_sql, db_exists, db_outcome).connected
                THEN Append(@, state.generated_sql) ELSE @]
  /\ pc' = IF check_execution(state') = "interpret" THEN "interpret_results" ELSE "END"
  /\ UNCHANGED checkpoint

InterpretResults ==
  /\ pc = "interpret_results"
  /\ \E llm_ok \in BOOLEAN : state' = interpret_results_node(state, llm_ok)
  /\ pc' = "END"
  /\ UNCHANGED <<checkpoint, hist>>

\* a caller outside the graph hands a text straight to execute_sql_safely
ExecuteSqlDirect ==
  /\ pc = "read_db_info"
  /\ \E sql \in SqlTexts, db_exists \in BOOLEAN, db_outcome \in DbOutcomes :
       LET r == execute_sql_safely(sql, db_exists, db_outcome) IN
       /\ state' = [state EXCEPT !.sql_execution_result = r.result]
       /\ hist' = [hist EXCEPT
            !.direct = Append(@, sql),
            !.connected = IF r.connected THEN Append(@, sql) ELSE @]
  /\ pc' = "END"
  /\ UNCHANGED checkpoint

NextSql ==
  \/ ReadDbInfo
  \/ GenerateSql
  \/ ValidateSql
  \/ ExecuteSql
  \/ InterpretResults
  \/ ExecuteSqlDirect

SpecSql == InitSql /\ [][NextSql]_vars

\* C27: generated SQL reaches the database only after validate_sql_safety
\* judged it safe: execute_sql is entered only from a validation that
\* passed with no error in the state, a rejection or an earlier error ends
\* the pipeline with no call of execute_sql, and execute_sql_safely opens
\* a connection for no text the validator rejects.
C27_UnsafeSqlNeverExecuted ==
  [][ /\ pc' = "execute_sql" =>
           /\ pc = "validate_sql"
           /\ ~Truthy(state'.error)
           /\ state'.generated_sql # <<>>
           /\ validate_sql_safety(state'.generated_sql).is_safe
      /\ hist'.nExecuteSql > hist.nExecuteSql => pc = "execute_sql"
      /\ Len(hist'.connected) > Len(hist.connected) =>
           validate_sql_safety(hist'.connected[Len(hist'.connected)]).is_safe
    ]_vars

\* a rejected text ended the pipeline with execute_sql never called
C27_Witness ==
  /\ pc = "END"
  /\ hist.direct = <<>>
  /\ state.generated_sql # <<>>
  /\ ~Get(state.sql_validation_result, "is_safe", TRUE)
  /\ state.error = "validation_failed"
  /\ hist.nExecuteSql = 0
  /\ hist.connected = <<>>

\* C28: a step in which the report sink raises (update_temp_markdown or
\* generate_final_report) leaves the run's error and should_continue as
\* they were, so the planned rounds still run.
C28_SinkFailureNotFatal ==
  [][ hist'.faults > hist.faults =>
        /\ Get(state', "error", None) = Get(state, "error", None)
        /\ Get(state', "should_continue", TRUE) = Get(state, "should_continue", TRUE)
    ]_vars

\* ------------------------------------------------------------------
\* save_state and load_state called on one path
\* ------------------------------------------------------------------

\* calls of save_state on the path
MaxSaves == 2

\* run states handed to save_state: before the first node, a first round
\* that failed, a first round that ran, a second round that failed
SavePlanned ==
  plan_analysis_node(read_csv_info_node(InitialState, TRUE), "tasks", 2, TRUE)
SaveInputs ==
  LET first_failed == execute_code_node(generate_code_node(SavePlanned, "code"), "fail")
      first_ran == execute_code_node(generate_code_node(SavePlanned, "code"), "ok")
      second_failed ==
        execute_code_node(
          generate_code_node(
            decide_continue_node(update_temp_report_node(first_ran, TRUE), "continue"),
            "code"),
          "fail")
  IN { InitialState, first_failed, first_ran, second_failed }

\* how a call of save_state ends: it returns, json.dump raises at a field,
\* or the process is killed before a field is written
SaveEndings(doc) ==
  {[kind |-> "saved", stop |-> 0]}
    \cup {[kind |-> "TypeError", stop |-> i] : i \in NamespaceFields(doc)}
    \cup {[kind |-> "killed", stop |-> i] : i \in 1..Len(SaveFields)}

InitSave ==
  /\ state \in SaveInputs
  /\ pc = "save_state"
  /\ checkpoint \in {NoFile, WriteFile(save_state(InitialState))}
  /\ hist = [ saves |-> 0, ending |-> "none", previous |-> checkpoint,
              observed |-> "none" ]

SaveState ==
  /\ hist.saves < MaxSaves
  /\ \E ending \in SaveEndings(save_state(state)), next_state \in SaveInputs :
       /\ checkpoint' = json_dump(save_state(state), ending.stop)
       /\ pc' = IF ending.kind = "saved" THEN "save_state"
                ELSE IF ending.kind = "TypeError" THEN "RAISED" ELSE "KILLED"
       /\ state' = next_state
       /\ hist' = [hist EXCEPT !.saves = @ + 1,
                               !.ending = ending.kind,
                               !.previous = checkpoint,
                               !.observed = "none"]

\* load_state of the path, between or after the calls of save_state
LoadState ==
  /\ hist.observed = "none"
  /\ hist' = [hist EXCEPT !.observed =
                IF FileKind(checkpoint) = "object" THEN "document"
                ELSE resume_error(checkpoint)]
  /\ UNCHANGED <<state, pc, checkpoint>>

NextSave ==
  \/ SaveState
  \/ LoadState

SpecSave == InitSave /\ [][NextSave]_vars

\* C29: save_state replaces the checkpoint as a whole: after a save that
\* returned, raised while encoding or was killed mid-write, load_state of
\* the path never finds a partly written document, and a save that did not
\* return leaves the file that was at the path as it was.
C29_SaveIsAtomic ==
  /\ hist.observed # "JSONDecodeError"
  /\ (hist.ending \in {"TypeError", "killed"} /\ hist.previous.exists)
       => checkpoint = hist.previous

\* Scenario A: the run is over, the plan had one task, every Generator call
\* returned a source and every execution of a source succeeded
ScenarioA ==
  /\ pc = "END"
  /\ Len(state.analysis_plan) = 1
  /\ hist.genAllOk
  /\ hist.execAllOk

\* C30: Scenario A ends with exactly one ledger record (round 1, the task of
\* the plan, success), completed_analyses holding that task alone, no error,
\* and handle_error never invoked.
C30_ScenarioA ==
  ScenarioA =>
    /\ Len(state.analysis_rounds) = 1
    /\ state.analysis_rounds[1].round = 1
    /\ state.analysis_rounds[1].task = state.analysis_plan[1]
    /\ state.analysis_rounds[1].execution_result.success
    /\ state.completed_analyses = << state.analysis_plan[1] >>
    /\ ~Truthy(state.error)
    /\ hist.nRepair = 0
    /\ state.error_retry_count = 0

\* C31: every execution of a non-empty source appends exactly one record to
\* analysis_rounds, carrying the current round and the task of that round in
\* the plan; no step changes or removes a record already appended, and no
\* other step appends one.
C31_EveryAttemptRecorded ==
  [][ /\ IsPrefix(state.analysis_rounds, state'.analysis_rounds)
      /\ (pc = "execute_code" /\ ~Truthy(state.error) /\ state.generated_code # "")
           => /\ Len(state'.analysis_rounds) = Len(state.analysis_rounds) + 1
              /\ state'.analysis_rounds[Len(state'.analysis_rounds)].round
                   = state.current_round
              /\ state.current_round \in 1..Len(state.analysis_plan)
              /\ state'.analysis_rounds[Len(state'.analysis_rounds)].task
                   = state.analysis_plan[state.current_round]
      /\ pc # "execute_code" => state'.analysis_rounds = state.analysis_rounds
    ]_vars

\* ------------------------------------------------------------------
\* the nodes called one at a time on a given state, as the unit tests do
\* ------------------------------------------------------------------

\* node calls in a row
MaxCalls == 2
\* tasks in a Planner reply
SkipPlanLen == 1

WithError(s) == [s EXCEPT !.error = "previous_error"]

SkipInputs ==
  LET generated == generate_code_node(SavePlanned, "code")
      sql_generated ==
        generate_sql_node(read_db_info_node(SqlInitialState, TRUE),
                          [raises |-> FALSE, sql |-> <<"select">>])
      sql_executed == execute_sql_node(validate_sql_node(sql_generated), TRUE, "ok")
      base == { InitialState, SavePlanned, generated,
                SqlInitialState, sql_generated, sql_executed }
  IN base \cup { WithError(b) : b \in base }

\* replies of the SQL generator: an exception, no text, a query, a statement
\* the validator rejects
SkipSqlReplies ==
  { [raises |-> TRUE, sql |-> <<>>], [raises |-> FALSE, sql |-> <<>>],
    [raises |-> FALSE, sql |-> <<"select">>], [raises |-> FALSE, sql |-> <<"drop">>] }

IsAnalysisState(s) == "csv_path" \in DOMAIN s

\* the last call: the node, the state it was given, whether it reached its
\* external capability
Called(node, before, called) ==
  [ n |-> hist.n + 1, node |-> node, before |-> before, called |-> called ]

InitSkip ==
  /\ state \in SkipInputs
  /\ pc = "call"
  /\ checkpoint = NoFile
  /\ hist = [ n |-> 0, node |-> "none", before |-> state, called |-> FALSE ]

CallPlanAnalysis ==
  /\ hist.n < MaxCalls /\ IsAnalysisState(state)
  /\ \E llm \in {"tasks", "bad_json", "raise"}, n \in 0..SkipPlanLen, sink_ok \in BOOLEAN :
       state' = plan_analysis_node(state, llm, n, sink_ok)
  /\ hist' = Called("plan_analysis", state, planner_called(state))
  /\ UNCHANGED <<pc, checkpoint>>

CallGenerateCode ==
  /\ hist.n < MaxCalls /\ IsAnalysisState(state)
  /\ \E llm \in {"code", "empty", "raise"} : state' = generate_code_node(state, llm)
  /\ hist' = Called("generate_code", state, generator_called(state))
  /\ UNCHANGED <<pc, checkpoint>>

CallExecuteCode ==
  /\ hist.n < MaxCalls /\ IsAnalysisState(state)
  /\ \E outcome \in {"ok", "fail", "raise"} : state' = execute_code_node(state, outcome)
  /\ hist' = Called("execute_code", state, sandbox_called(state))
  /\ UNCHANGED <<pc, checkpoint>>

CallGenerateSql ==
  /\ hist.n < MaxCalls /\ ~IsAnalysisState(state)
  /\ \E llm \in SkipSqlReplies : state' = generate_sql_node(state, llm)
  /\ hist' = Called("generate_sql", state, sql_generator_called(state))
  /\ UNCHANGED <<pc, checkpoint>>

CallValidateSql ==
  /\ hist.n < MaxCalls /\ ~IsAnalysisState(state)
  /\ state' = validate_sql_node(state)
  /\ hist' = Called("validate_sql", state, sql_validator_called(state))
  /\ UNCHANGED <<pc, checkpoint>>

CallExecuteSql ==
  /\ hist.n < MaxCalls /\ ~IsAnalysisState(state)
  /\ \E db_exists \in BOOLEAN, db_outcome \in DbOutcomes :
       state' = execute_sql_node(state, db_exists, db_outcome)
  /\ hist' = Called("execute_sql", state, database_called(state))
  /\ UNCHANGED <<pc, checkpoint>>

CallInterpretResults ==
  /\ hist.n < MaxCalls /\ ~IsAnalysisState(state)
  /\ \E llm_ok \in BOOLEAN : state' = interpret_results_node(state, llm_ok)
  /\ hist' = Called("interpret_results", state, interpreter_called(state))
  /\ UNCHANGED <<pc, checkpoint>>

NextSkip ==
  \/ CallPlanAnalysis
  \/ CallGenerateCode
  \/ CallExecuteCode
  \/ CallGenerateSql
  \/ CallValidateSql
  \/ CallExecuteSql
  \/ CallInterpretResults

SpecSkip == InitSkip /\ [][NextSkip]_vars

\* C32: a node given a state in which an error is recorded returns that
\* state as it is (error, source, round, ledger and log included) and does
\* not reach its external capability; this holds for plan_analysis,
\* generate_code, execute_code and for generate_sql, validate_sql,
\* execute_sql, interpret_results.
C32_ErrorPassesThrough ==
  (hist.node # "none" /\ Truthy(hist.before.error)) =>
    /\ state = hist.before
    /\ ~hist.called

\* execute_code was given a state with an error and a source to run
C32_Witness ==
  /\ hist.node = "execute_code"
  /\ Truthy(hist.before.error)
  /\ hist.before.generated_code # ""
  /\ state = hist.before

\* execute_code_node was called with no source and no error recorded
ExecutedNoSource ==
  /\ hist.node = "execute_code"
  /\ ~Truthy(hist.before.error)
  /\ hist.before.generated_code = ""

\* C33: execute_code_node given an empty source and no recorded error
\* records the error "no generated code to execute", sets should_continue
\* false, does not reach the sandbox and appends nothing to the ledger.
C33_NoSourceIsAnError ==
  ExecutedNoSource =>
    /\ state.error = "no_code"
    /\ state.should_continue = FALSE
    /\ ~hist.called
    /\ state.analysis_rounds = hist.before.analysis_rounds
    /\ state.completed_analyses = hist.before.completed_analyses
    /\ state.execution_result = hist.before.execution_result

\* the call was made on a planned run whose Generator replied without source
C33_Witness ==
  /\ ExecutedNoSource
  /\ Len(hist.before.analysis_plan) > 0
  /\ state.error = "no_code"

\* ------------------------------------------------------------------
\* what a source does in the sandbox of execute_code_safely
\* ------------------------------------------------------------------

\* the names exec() is given (safe_globals, code_executor.py lines 69-78)
safe_globals == {"__builtins__", "file_path", "pd", "pandas", "np", "numpy"}

\* the names the Generator and Repairer prompts declare as predefined
PromptNames == {"csv_path", "pd", "np"}

\* a source: the free names it reads, and how it ends when they are all
\* bound: it returns, it raises an Exception, or it calls exit() (SystemExit)
SourceNames == {"csv_path", "file_path", "pd", "np", "df"}
Sources == [reads : SUBSET SourceNames, ending : {"returns", "raises", "exits"}]

\* exec(sanitized, safe_globals, safe_locals) inside try / except Exception
\* (lines 81-99): what the statement ends with; a read of an unbound name is
\* a NameError, an Exception like any other; SystemExit is not an Exception
exec_source(src) ==
  IF ~(src.reads \subseteq safe_globals) THEN "NameError"
  ELSE IF src.ending = "returns" THEN "returned"
  ELSE IF src.ending = "raises" THEN "Exception"
  ELSE "SystemExit"

\* the last call: which function, the source, the exception that left it
\* ("none" if it returned), the outcome dict it returned
SandboxCall(call, src, thrown, result) ==
  [ call |-> call, source |-> src, thrown |-> thrown, result |-> result ]

InitSandbox ==
  /\ state = generate_code_node(SavePlanned, "code")
  /\ pc = "execute_code"
  /\ checkpoint = NoFile
  /\ hist = SandboxCall("none", [reads |-> {}, ending |-> "returns"], "none", EmptyDict)

\* execute_code_safely(code, file_path) called on a source
CallExecuteCodeSafely ==
  /\ pc = "execute_code"
  /\ \E src \in Sources :
       LET e == exec_source(src) IN
       IF e = "SystemExit"
         THEN /\ pc' = "RAISED"
              /\ hist' = SandboxCall("execute_code_safely", src, e, EmptyDict)
         ELSE /\ pc' = "returned"
              /\ hist' = SandboxCall("execute_code_safely", src, "none",
                                     execute_code_safely(state.generated_code, e = "returned"))
  /\ UNCHANGED <<state, checkpoint>>

\* execute_code_node on a state whose generated_code is the source
ExecuteSource ==
  /\ pc = "execute_code"
  /\ \E src \in Sources :
       LET e == exec_source(src) IN
       IF e = "SystemExit"
         THEN /\ state' = state
              /\ pc' = "RAISED"
              /\ hist' = SandboxCall("execute_code_node", src, e, EmptyDict)
         ELSE /\ state' = execute_code_node(state, IF e = "returned" THEN "ok" ELSE "fail")
              /\ pc' = check_execution_error(state')
              /\ hist' = SandboxCall("execute_code_node", src, "none",
                                     state'.execution_result)
  /\ UNCHANGED checkpoint

NextSandbox ==
  \/ CallExecuteCodeSafely
  \/ ExecuteSource

SpecSandbox == InitSandbox /\ [][NextSandbox]_vars

\* C34: a source that reads the dataset through csv_path, reads no name
\* beyond those the prompts declare as predefined and would otherwise
\* return, executes successfully in execute_code_node.
C34_PromisedNamesAreBound ==
  ( /\ hist.call = "execute_code_node"
    /\ "csv_path" \in hist.source.reads
    /\ hist.source.reads \subseteq PromptNames
    /\ hist.source.ending = "returns" )
  => /\ hist.thrown = "none"
     /\ Get(hist.result, "success", FALSE)
     /\ ~Truthy(state.error)

\* C35: for every source execute_code_safely returns an outcome instead of
\* raising; success comes with an empty error and the whole captured output,
\* failure with the exception's type name and traceback in error and the
\* output printed before the failure.
C35_SandboxAlwaysReturns ==
  hist.call = "execute_code_safely" =>
    /\ hist.thrown = "none"
    /\ pc = "returned"
    /\ Get(hist.result, "success", FALSE)
         => (hist.result.error = "" /\ hist.result.output = "out")
    /\ ~Get(hist.result, "success", TRUE)
         => (hist.result.error = "exec_error" /\ hist.result.output = "partial")

Succeeded(rounds) == SelectSeq(rounds, LAMBDA r : r.execution_result.success)

\* C37: in every reachable state completed_analyses is the list of the tasks of
\* the ledger records whose execution succeeded, in ledger order, one entry
\* per successful record; no round has more than one successful record, and
\* completed_analyses is no longer than current_round.
C37_CompletedMatchesLedger ==
  LET done == Succeeded(Get(state, "analysis_rounds", <<>>))
      completed == Get(state, "completed_analyses", <<>>)
  IN /\ Len(completed) = Len(done)
     /\ \A i \in 1..Len(done) : completed[i] = done[i].task
     /\ \A i, j \in 1..Len(done) : i < j => done[i].round # done[j].round
     /\ Len(completed) <= Get(state, "current_round", 0)

\* round 1 failed, was repaired and succeeded, and round 2 succeeded
C37_Witness ==
  LET rounds == Get(state, "analysis_rounds", <<>>)
  IN /\ Len(rounds) = 3
     /\ ~rounds[1].execution_result.success
     /\ rounds[2].execution_result.success
     /\ rounds[3].execution_result.success
     /\ state.completed_analyses = <<1, 2>>
     /\ state.current_round = 2

\* the ledger records of round n whose execution succeeded, in ledger order
SuccessesOfRound(rounds, n) ==
  SelectSeq(rounds, LAMBDA r : r.round = n /\ r.execution_result.success)

PlannedNothing ==
  /\ state.analysis_plan = <<>>
  /\ \E i \in 1..Len(state.messages) : state.messages[i] = Msg("planned", 0)

\* C39: when the Planner has returned an empty task list the run ends at
\* Summarize with current_round 0, an empty ledger, no source executed and no
\* error in the final state.
C39_EmptyPlanEndsClean ==
  (pc = "END" /\ PlannedNothing) =>
    /\ hist.nSummary = 1
    /\ state.current_round = 0
    /\ state.analysis_rounds = <<>>
    /\ hist.nExec = 0
    /\ ~Truthy(state.error)

\* ----------------------------------------------------- multi-query analysis
\* run_multi_query_analysis: one compiled query graph per input query, all
\* sharing one query history
MaxQueries == 3
QueryTexts == {"q1", "q2"}
QueryLists == UNION {[1..n -> QueryTexts] : n \in 0..MaxQueries}

\* what the outside world does during one invocation of the query graph
SqlWorlds ==
  [ schema_ok : BOOLEAN, llm : SkipSqlReplies, db_exists : BOOLEAN,
    db_outcome : DbOutcomes, interpreter_ok : BOOLEAN ]

\* create_sql_analysis_graph + invoke: the state the compiled graph returns
sql_graph_invoke(initial_state, world) ==
  LET validated ==
        validate_sql_node(
          generate_sql_node(read_db_info_node(initial_state, world.schema_ok),
                            world.llm))
  IN IF check_validation(validated) # "execute" THEN validated
     ELSE LET executed == execute_sql_node(validated, world.db_exists, world.db_outcome)
          IN IF check_execution(executed) # "interpret" THEN executed
             ELSE interpret_results_node(executed, world.interpreter_ok)

\* whether the invocation gets as far as execute_sql_safely
reaches_execute_sql(initial_state, world) ==
  LET validated ==
        validate_sql_node(
          generate_sql_node(read_db_info_node(initial_state, world.schema_ok),
                            world.llm))
  IN check_validation(validated) = "execute" /\ database_called(validated)

\* run_multi_query_analysis, lines 449-461: the state query i starts from
multi_initial_state(query, i, shared_history) ==
  [ SqlInitialState EXCEPT !.natural_language_query = query,
                           !.query_history = shared_history,
                           !.current_query_index = i ]

\* run_multi_query_analysis, lines 468-469: the shared history after a query
shared_history_after_extends(shared_history, result) ==
  shared_history \o result.query_history
shared_history_after(shared_history, result) ==
  IF result.query_history # <<>> THEN result.query_history ELSE shared_history

\* state = the result of the last query; hist = the loop's locals (queries,
\* results, shared_history) and, per query already run, the history it was
\* given, whether it reached execute_sql_safely and how it failed
InitMulti ==
  /\ state = SqlInitialState
  /\ pc = "loop"
  /\ checkpoint = NoFile
  /\ \E queries \in QueryLists :
       hist = [ queries |-> queries, results |-> <<>>, shared_history |-> <<>>,
                given |-> <<>>, reached |-> <<>> ]

\* one iteration of the for loop
RunQuery ==
  /\ pc = "loop"
  /\ Len(hist.results) < Len(hist.queries)
  /\ \E world \in SqlWorlds :
       LET i == Len(hist.results) + 1
           initial_state == multi_initial_state(hist.queries[i], i, hist.shared_history)
           result == sql_graph_invoke(initial_state, world)
       IN /\ state' = result
          /\ hist' = [hist EXCEPT
               !.results = Append(@, result),
               !.shared_history = shared_history_after(@, result),
               !.given = Append(@, initial_state.query_history),
               !.reached = Append(@, reaches_execute_sql(initial_state, world))]
  /\ UNCHANGED <<pc, checkpoint>>

\* the loop is over: return results
ReturnResults ==
  /\ pc = "loop"
  /\ Len(hist.results) = Len(hist.queries)
  /\ pc' = "returned"
  /\ UNCHANGED <<state, checkpoint, hist>>

NextMulti == RunQuery \/ ReturnResults

SpecMulti == InitMulti /\ [][NextMulti]_vars

\* the records the queries 1..n left in the history: one for each query that
\* reached execute_sql_safely, the last record of that query's result
RECURSIVE RecordsOf(_)
RecordsOf(n) ==
  IF n = 0 THEN <<>>
  ELSE RecordsOf(n - 1) \o
         (IF hist.reached[n]
            THEN LET history == hist.results[n].query_history
                 IN <<history[Len(history)]>>
            ELSE <<>>)

====
